---- MODULE Spec2Model ----
(***************************************************************************)
(* Model of vietnam_protected_areas_viz.py: the marker-size scaler         *)
(* (calculate_star_sizes) and the star-glyph drawing of                    *)
(* create_visualization.                                                   *)
(*                                                                         *)
(* Numbers.  The program computes in IEEE doubles.  A double is modelled   *)
(* here as an exact fraction [n, d] in lowest terms with d > 0, or as NaN  *)
(* (d = 0).  np.sqrt is exact on perfect squares and is otherwise rounded  *)
(* down to 1/SqrtScale; the rounding of the other operations is not        *)
(* modelled.                                                               *)
(***************************************************************************)
EXTENDS Integers, Sequences, FiniteSets, TLC

VARIABLES
    areas,      \* calculate_star_sizes: argument areas
    min_size,   \* calculate_star_sizes: argument min_size
    max_size,   \* calculate_star_sizes: argument max_size
    result,     \* calculate_star_sizes: what the call produced
    spc,        \* position of the caller of calculate_star_sizes
    gdf_pa,     \* create_visualization: the protected-area table
    pc,         \* create_visualization: position in the function
    rng,        \* state of numpy's global random generator
    star_sizes, \* create_visualization: star_sizes
    colors,     \* create_visualization: colors
    patches,    \* the axes' patches (the decorative tree)
    prims,      \* the axes' collections, one entry per drawn point
    texts,      \* the axes' annotations
    row,        \* sparkle loop: position of the current row (1-based)
    size,       \* sparkle loop: size
    tip_radius, \* sparkle loop: tip_radius
    tip_i,      \* sparkle loop: i
    calls,      \* number of calls of create_visualization so far
    prev_prims, \* the collections of the previous call's figure
    rng_at_call, \* the generator's state on entry to each call so far
    gadm,       \* what is stored at the path gadm_file
    bpc,        \* fetch_vietnam_boundary: position in the function
    gdf,        \* fetch_vietnam_boundary: gdf
    total_coords,      \* fetch_vietnam_boundary: total_coords
    simplified_coords, \* fetch_vietnam_boundary: simplified_coords
    caught,     \* fetch_vietnam_boundary: the exception the except clause caught
    fetched,    \* fetch_vietnam_boundary: how the call ended
    mpc,        \* main: position in the function
    gdf_boundary, \* main: gdf_boundary
    steps,      \* main: the steps finished so far, in order
    outputs     \* main: what it has created on disk so far, in order

scaleVars == <<areas, min_size, max_size, result, spc>>

vizVars ==
    <<gdf_pa, pc, rng, star_sizes, colors, patches, prims, texts, row, size,
      tip_radius, tip_i, calls, prev_prims, rng_at_call>>

fetchVars ==
    <<gadm, bpc, gdf, total_coords, simplified_coords, caught, fetched>>

mainVars == <<mpc, gdf_boundary, steps, outputs>>

vars == <<scaleVars, vizVars, fetchVars, mainVars>>

-----------------------------------------------------------------------------
(* Bounds of the model *)

MaxLen == 3         \* longest magnitude sequence handed to the scaler
MaxRoot == 2        \* magnitudes are drawn from the squares 0 .. MaxRoot^2
MaxSizeVal == 2     \* small min_size / max_size values 0 .. MaxSizeVal
SqrtScale == 10     \* np.sqrt of a non-square keeps 1/SqrtScale
MaxLabel == 3       \* tables are row subsets of sample rows 0 .. MaxLabel
RngMod == 4         \* number of states of the random generator
MaxCalls == 2       \* calls of create_visualization in one process
MaxCoords == 5      \* most coordinates of one polygon's exterior ring
MaxPolys == 2       \* most polygons of a MultiPolygon

-----------------------------------------------------------------------------
(* Doubles as fractions *)

RECURSIVE Gcd(_, _)
Gcd(a, b) == IF b = 0 THEN a ELSE Gcd(b, a % b)

Abs(x) == IF x < 0 THEN -x ELSE x

NaN == [n |-> 0, d |-> 0]

IsNaN(v) == v.d = 0

\* n / d in lowest terms, d > 0
Frac(n, d) ==
    LET g == Gcd(Abs(n), Abs(d))
        s == IF d < 0 THEN -1 ELSE 1
    IN  [n |-> (s * n) \div g, d |-> (s * d) \div g]

Num(i) == [n |-> i, d |-> 1]

FAdd(a, b) ==
    IF IsNaN(a) \/ IsNaN(b) THEN NaN
    ELSE Frac(a.n * b.d + b.n * a.d, a.d * b.d)

FSub(a, b) ==
    IF IsNaN(a) \/ IsNaN(b) THEN NaN
    ELSE Frac(a.n * b.d - b.n * a.d, a.d * b.d)

FMul(a, b) ==
    IF IsNaN(a) \/ IsNaN(b) THEN NaN
    ELSE Frac(a.n * b.n, a.d * b.d)

\* 0/0 is NaN.  A nonzero numerator over zero (an infinity) is left out: the
\* scaler divides by max_sqrt - min_sqrt, and when that is zero every
\* numerator sqrt_areas[i] - min_sqrt is zero too; the other division of the
\* program is by np.pi.
FDiv(a, b) ==
    CASE IsNaN(a) \/ IsNaN(b) -> NaN
      [] ~(IsNaN(a) \/ IsNaN(b)) /\ b.n = 0 /\ a.n = 0 -> NaN
      [] ~(IsNaN(a) \/ IsNaN(b)) /\ b.n # 0 -> Frac(a.n * b.d, a.d * b.n)

\* <= on doubles: false when either side is NaN
FLe(a, b) == ~IsNaN(a) /\ ~IsNaN(b) /\ a.n * b.d <= b.n * a.d

RECURSIVE IsqrtIter(_, _, _)
IsqrtIter(x, lo, hi) ==
    IF lo >= hi THEN lo
    ELSE LET mid == (lo + hi + 1) \div 2
         IN  IF mid * mid <= x THEN IsqrtIter(x, mid, hi)
             ELSE IsqrtIter(x, lo, mid - 1)

\* floor of the square root of a natural number
Isqrt(x) == IsqrtIter(x, 0, IF x < 46340 THEN x ELSE 46340)

-----------------------------------------------------------------------------
(* numpy *)

\* np.sqrt of a double: NaN for NaN and for a negative number, else
\* floor(sqrt(v) * SqrtScale) / SqrtScale
FSqrt(v) ==
    IF IsNaN(v) \/ v.n < 0 THEN NaN
    ELSE Frac(Isqrt((v.n \div v.d) * SqrtScale * SqrtScale
                    + ((v.n % v.d) * SqrtScale * SqrtScale) \div v.d),
              SqrtScale)

\* interpolation on the raw magnitudes: the square root left out
np_sqrt_raw(a) == IF a < 0 THEN NaN ELSE Num(a)

\* np.sqrt on one element of the integer array areas
np_sqrt(a) == FSqrt(Num(a))

\* ndarray.min() of a non-empty array: NaN if any element is NaN
np_min(s) ==
    IF \E i \in 1..Len(s) : IsNaN(s[i]) THEN NaN
    ELSE s[CHOOSE i \in 1..Len(s) : \A j \in 1..Len(s) : FLe(s[i], s[j])]

\* ndarray.max() of a non-empty array: NaN if any element is NaN
np_max(s) ==
    IF \E i \in 1..Len(s) : IsNaN(s[i]) THEN NaN
    ELSE s[CHOOSE i \in 1..Len(s) : \A j \in 1..Len(s) : FLe(s[j], s[i])]

-----------------------------------------------------------------------------
(* calculate_star_sizes *)

Returned(v) == [raised |-> FALSE, exc |-> "", sizes |-> v]

Raised(e) == [raised |-> TRUE, exc |-> e, sizes |-> <<>>]

\* sqrt_areas = np.sqrt(areas)
SqrtAreas(a) == [i \in 1..Len(a) |-> np_sqrt(a[i])]

\* normalising by the maximum alone: sqrt_areas / max_sqrt
NormalizedNoOffset(sq, min_sqrt, max_sqrt) ==
    [i \in 1..Len(sq) |-> FDiv(sq[i], max_sqrt)]

\* normalized = (sqrt_areas - min_sqrt) / (max_sqrt - min_sqrt)
Normalized(sq, min_sqrt, max_sqrt) ==
    [i \in 1..Len(sq) |-> FDiv(FSub(sq[i], min_sqrt), FSub(max_sqrt, min_sqrt))]

\* sizes = min_size + normalized * (max_size - min_size)
Sizes(normalized, mn, mx) ==
    [i \in 1..Len(normalized) |->
        FAdd(Num(mn), FMul(normalized[i], Num(mx - mn)))]

\* The function makes no check of its arguments.  The one failure is
\* numpy's: .min() of an empty array raises ValueError.
calculate_star_sizes(a, mn, mx) ==
    IF Len(a) = 0 THEN Raised("ValueError")
    ELSE LET sqrt_areas == SqrtAreas(a)
             min_sqrt == np_min(sqrt_areas)
             max_sqrt == np_max(sqrt_areas)
         IN  Returned(Sizes(Normalized(sqrt_areas, min_sqrt, max_sqrt), mn, mx))

-----------------------------------------------------------------------------
(* fetch_wdpa_vietnam: the built-in sample table *)

SampleAreas ==
    << 100, 720, 857, 222, 368, 108, 155, 298, 1156, 650, 76, 314, 75, 82,
       410, 757, 220, 295, 589, 71, 552, 166, 912, 260, 185 >>

DefaultMinSize == 80

DefaultMaxSize == 1000

-----------------------------------------------------------------------------
(* A caller of calculate_star_sizes *)

RECURSIVE SeqsUpTo(_, _)
SeqsUpTo(S, k) ==
    IF k = 0 THEN {<<>>}
    ELSE LET shorter == SeqsUpTo(S, k - 1)
         IN  shorter \cup {Append(s, x) : s \in shorter, x \in S}

\* squares, one non-square (5) and one negative magnitude
AreaVals == {k * k : k \in 0..MaxRoot} \cup {5, -1}

ScaleAreas == SeqsUpTo(AreaVals, MaxLen) \cup {SampleAreas}

ScaleSizePairs ==
    ((0..MaxSizeVal) \X (0..MaxSizeVal)) \cup {<<DefaultMinSize, DefaultMaxSize>>}

NoGdf == [geom_type |-> "None", rings |-> <<>>, simplified |-> FALSE]

NotFetched == [how |-> "none", gdf |-> NoGdf]

\* fetch_vietnam_boundary is not running
FetchIdle ==
    /\ gadm = [exists |-> FALSE, content |-> NoGdf]
    /\ bpc = "idle" /\ gdf = NoGdf
    /\ total_coords = 0 /\ simplified_coords = 0
    /\ caught = "" /\ fetched = NotFetched

\* main is not running
MainIdle ==
    /\ mpc = "idle" /\ gdf_boundary = NoGdf
    /\ steps = <<>> /\ outputs = <<>>

\* create_visualization is not running
VizIdle ==
    /\ gdf_pa = <<>> /\ pc = "idle" /\ rng = 0
    /\ star_sizes = <<>> /\ colors = <<>>
    /\ patches = <<>> /\ prims = <<>> /\ texts = <<>>
    /\ row = 0 /\ size = NaN /\ tip_radius = NaN /\ tip_i = 0
    /\ calls = 0 /\ prev_prims = <<>> /\ rng_at_call = <<>>

InitScale ==
    /\ VizIdle
    /\ FetchIdle
    /\ MainIdle
    /\ areas \in ScaleAreas
    /\ \E p \in ScaleSizePairs : min_size = p[1] /\ max_size = p[2]
    /\ result = Returned(<<>>)
    /\ spc = "call"

CallScale ==
    /\ spc = "call"
    /\ result' = calculate_star_sizes(areas, min_size, max_size)
    /\ spc' = IF result'.raised THEN "raised" ELSE "returned"
    /\ UNCHANGED <<areas, min_size, max_size>>
    /\ UNCHANGED <<vizVars, fetchVars, mainVars>>

NextScale == CallScale

SpecScale == InitScale /\ [][NextScale]_vars

-----------------------------------------------------------------------------
(* fetch_wdpa_vietnam: coordinates, in hundredths of a degree *)

SampleLat ==
    << 2225, 1145, 1760, 2030, 2148, 2107, 2112, 2237, 1292,
       1218, 868, 1022, 1075, 958, 860, 1040, 1620, 1170,
       1442, 2022, 1833, 1958, 1897, 1183, 1152 >>

SampleLon ==
    << 10562, 10743, 10628, 10567, 10563, 10537, 10495, 10378, 10775,
       10868, 10660, 10400, 10552, 10507, 10478, 10693, 10785, 10915,
       10837, 10655, 10537, 10548, 10508, 10720, 10648 >>

\* the row with index label l (pandas' default RangeIndex: 0, 1, ...)
SampleRow(l) ==
    [idx |-> l,
     x |-> Frac(SampleLon[l + 1], 100),
     y |-> Frac(SampleLat[l + 1], 100),
     area |-> SampleAreas[l + 1]]

\* the table fetch_wdpa_vietnam returns
SampleTable == [k \in 1..Len(SampleAreas) |-> SampleRow(k - 1)]

\* a boolean-mask selection gdf_pa[mask]: the rows whose labels are in S, in
\* table order, each keeping its index label
RECURSIVE Filtered(_, _)
Filtered(S, l) ==
    IF l >= Len(SampleAreas) THEN <<>>
    ELSE (IF l \in S THEN <<SampleRow(l)>> ELSE <<>>) \o Filtered(S, l + 1)

\* the tables handed to create_visualization: the sample table and the
\* selections among its first rows
VizTables == {Filtered(S, 0) : S \in SUBSET (0..MaxLabel)} \cup {SampleTable}

-----------------------------------------------------------------------------
(* numpy's global random generator, reduced to a counter with RngMod       *)
(* states: a draw returns the state and moves to the next one              *)

Seed == 42

np_random_seed(v) == v % RngMod

\* the state after k draws from state s
RngAfter(s, k) == (s + k) % RngMod

-----------------------------------------------------------------------------
(* create_soft_watercolor_tree *)

\* count patches of one kind, each shaped by perPatch draws; rnd is the
\* generator state left by the patch's draws
PatchLoop(kind, zorder, count, perPatch, s) ==
    [k \in 1..count |->
        [kind |-> kind, i |-> k - 1, zorder |-> zorder,
         rnd |-> RngAfter(s, k * perPatch)]]

\* one bauble (odd entries) and its highlight (even entries) per ornament,
\* four draws each
OrnamentLoop(count, s) ==
    [k \in 1..(2 * count) |->
        [kind |-> IF k % 2 = 1 THEN "bauble" ELSE "highlight",
         i |-> (k - 1) \div 2,
         zorder |-> IF k % 2 = 1 THEN 10 ELSE 11,
         rnd |-> RngAfter(s, ((k + 1) \div 2) * 4)]]

\* the generator state after a loop that started in state s
StateAfter(ps, s) == IF Len(ps) = 0 THEN s ELSE ps[Len(ps)].rnd

\* the patches added for a generator state s0 on entry, and the state on
\* exit; np.random.seed(42) comes before the first draw
create_soft_watercolor_tree(s0) ==
    LET s1 == np_random_seed(Seed)
        trunk == PatchLoop("trunk", 1, 3, 0, s1)
        \* 15 + 15 edge points with two draws each, 5 + 5 with one, one colour
        segs == PatchLoop("segment", 2, 15, 71, s1)
        s2 == StateAfter(segs, s1)
        needles == PatchLoop("needle", 3, 60, 5, s2)
        s3 == StateAfter(needles, s2)
        orns == OrnamentLoop(22, s3)
        s4 == StateAfter(orns, s3)
        star == PatchLoop("treestar", 12, 3, 0, s4)
    IN  [patches |-> trunk \o segs \o needles \o orns \o star, rng |-> s4]

-----------------------------------------------------------------------------
(* create_visualization *)

CNone == [name |-> "none", i |-> 0]

White == [name |-> "white", i |-> 0]

\* entry i of the YlOrRd colormap
Cmap(i) == [name |-> "YlOrRd", i |-> i]

\* plt.cm.YlOrRd(plt.Normalize(vmin, vmax)(a)): the index into the 256
\* entries of the map; Normalize gives 0 when vmin = vmax
ColorIndex(a, vmin, vmax) ==
    IF vmin = vmax THEN 0
    ELSE LET k == ((a - vmin) * 256) \div (vmax - vmin)
         IN  IF k >= 256 THEN 255 ELSE k

TableAreas(t) == [k \in 1..Len(t) |-> t[k].area]

IntMin(f) == f[CHOOSE i \in 1..Len(f) : \A j \in 1..Len(f) : f[i] <= f[j]]

IntMax(f) == f[CHOOSE i \in 1..Len(f) : \A j \in 1..Len(f) : f[j] <= f[i]]

Colors(t) ==
    LET a == TableAreas(t)
    IN  [k \in 1..Len(t) |-> ColorIndex(a[k], IntMin(a), IntMax(a))]

\* gdf_boundary.plot(...)
BoundaryPrim ==
    [kind |-> "boundary", row |-> 0, x |-> NaN, y |-> NaN, s |-> NaN,
     c |-> CNone, alpha |-> Frac(65, 100), zorder |-> 5,
     ec |-> "#5a7c65", lw |-> Num(2)]

\* the four ax.scatter calls over the whole table
OuterGlowLayer ==
    [kind |-> "outer", factor |-> Frac(25, 10), white |-> FALSE,
     alpha |-> Frac(15, 100), zorder |-> 8, ec |-> "none", lw |-> Num(0)]

MidGlowLayer ==
    [kind |-> "mid", factor |-> Frac(18, 10), white |-> FALSE,
     alpha |-> Frac(25, 100), zorder |-> 9, ec |-> "none", lw |-> Num(0)]

InnerGlowLayer ==
    [kind |-> "inner", factor |-> Frac(13, 10), white |-> TRUE,
     alpha |-> Frac(35, 100), zorder |-> 10, ec |-> "none", lw |-> Num(0)]

\* the foreground star given the mid glow's zorder
MainStarBehind ==
    [kind |-> "star", factor |-> Num(1), white |-> FALSE,
     alpha |-> Frac(95, 100), zorder |-> 9, ec |-> "#34495e",
     lw |-> Frac(12, 10)]

MainStarLayer ==
    [kind |-> "star", factor |-> Num(1), white |-> FALSE,
     alpha |-> Frac(95, 100), zorder |-> 11, ec |-> "#34495e",
     lw |-> Frac(12, 10)]

\* ax.scatter(gdf_pa.geometry.x, gdf_pa.geometry.y, s=star_sizes * factor,
\* ...): one primitive per row, by position
ScatterStars(layer) ==
    [k \in 1..Len(gdf_pa) |->
        [kind |-> layer.kind, row |-> k, x |-> gdf_pa[k].x, y |-> gdf_pa[k].y,
         s |-> FMul(star_sizes[k], layer.factor),
         c |-> IF layer.white THEN White ELSE Cmap(colors[k]),
         alpha |-> layer.alpha, zorder |-> layer.zorder,
         ec |-> layer.ec, lw |-> layer.lw]]

\* np.pi
Pi == Frac(355, 113)

\* i * 2 * np.pi / 5 + np.pi/2, in degrees
Angle(i) == (i * 2 * 180) \div 5 + 90

\* np.cos and np.sin at the five tip angles, to three decimals
np_cos(deg) ==
    CASE deg % 360 = 90 -> Num(0)
      [] deg % 360 = 162 -> Frac(-951, 1000)
      [] deg % 360 = 234 -> Frac(-588, 1000)
      [] deg % 360 = 306 -> Frac(588, 1000)
      [] deg % 360 = 18 -> Frac(951, 1000)

np_sin(deg) ==
    CASE deg % 360 = 90 -> Num(1)
      [] deg % 360 = 162 -> Frac(309, 1000)
      [] deg % 360 = 234 -> Frac(-809, 1000)
      [] deg % 360 = 306 -> Frac(-809, 1000)
      [] deg % 360 = 18 -> Frac(309, 1000)

\* tip_radius = np.sqrt(size / np.pi) * 0.6
TipRadius(sz) == FMul(FSqrt(FDiv(sz, Pi)), Frac(6, 10))

\* the ax.scatter call of the sparkle loop's body
SparklePrim(k, i) ==
    [kind |-> "sparkle", row |-> k,
     x |-> FAdd(gdf_pa[k].x, FMul(tip_radius, np_cos(Angle(i)))),
     y |-> FAdd(gdf_pa[k].y, FMul(tip_radius, np_sin(Angle(i)))),
     s |-> FMul(size, Frac(8, 100)),
     c |-> White, alpha |-> Frac(7, 10), zorder |-> 12,
     ec |-> "none", lw |-> Num(0)]

\* gdf_pa.sort_values('area_km2', ascending=False).head(10): positions by
\* descending area, equal areas in table order
Before(t, p, q) == t[p].area > t[q].area \/ (t[p].area = t[q].area /\ p < q)

SortedDesc(t) ==
    [k \in 1..Len(t) |->
        CHOOSE p \in 1..Len(t) :
            Cardinality({q \in 1..Len(t) : Before(t, q, p)}) = k - 1]

FirstN(sq, n) == IF Len(sq) <= n THEN sq ELSE SubSeq(sq, 1, n)

Labels(t) ==
    LET top == FirstN(SortedDesc(t), 10)
    IN  [k \in 1..Len(top) |-> [kind |-> "label", row |-> top[k], zorder |-> 11]]

ScaleIdle ==
    /\ areas = <<>> /\ min_size = 0 /\ max_size = 0
    /\ result = Returned(<<>>) /\ spc = "idle"

Init ==
    /\ ScaleIdle
    /\ FetchIdle
    /\ MainIdle
    /\ gdf_pa \in VizTables
    /\ pc = "tree"
    /\ rng \in 0..(RngMod - 1)
    /\ star_sizes = <<>> /\ colors = <<>>
    /\ patches = <<>> /\ prims = <<>> /\ texts = <<>>
    /\ row = 0 /\ size = NaN /\ tip_radius = NaN /\ tip_i = 0
    /\ calls = 1 /\ prev_prims = <<>> /\ rng_at_call = <<rng>>

\* lines 434-441: new figure, then the tree background
DrawTree ==
    /\ pc = "tree"
    /\ LET t == create_soft_watercolor_tree(rng)
       IN  patches' = t.patches /\ rng' = t.rng
    /\ pc' = "boundary"
    /\ UNCHANGED <<scaleVars, fetchVars, mainVars>>
    /\ UNCHANGED <<gdf_pa, star_sizes, colors, prims, texts, row, size,
                   tip_radius, tip_i, calls, prev_prims, rng_at_call>>

\* lines 444-451
PlotBoundary ==
    /\ pc = "boundary"
    /\ prims' = Append(prims, BoundaryPrim)
    /\ pc' = "sizes"
    /\ UNCHANGED <<scaleVars, fetchVars, mainVars>>
    /\ UNCHANGED <<gdf_pa, rng, star_sizes, colors, patches, texts, row, size,
                   tip_radius, tip_i, calls, prev_prims, rng_at_call>>

\* lines 456-460: star_sizes with the default size range, and the colours
ComputeSizes ==
    /\ pc = "sizes"
    /\ LET r == calculate_star_sizes(TableAreas(gdf_pa), DefaultMinSize,
                                     DefaultMaxSize)
       IN  IF r.raised
           THEN pc' = "raised" /\ UNCHANGED <<star_sizes, colors>>
           ELSE /\ star_sizes' = r.sizes
                /\ colors' = Colors(gdf_pa)
                /\ pc' = "outer"
    /\ UNCHANGED <<scaleVars, fetchVars, mainVars>>
    /\ UNCHANGED <<gdf_pa, rng, patches, prims, texts, row, size, tip_radius,
                   tip_i, calls, prev_prims, rng_at_call>>

Scatter(layer) ==
    /\ prims' = prims \o ScatterStars(layer)
    /\ UNCHANGED <<scaleVars, fetchVars, mainVars>>
    /\ UNCHANGED <<gdf_pa, rng, star_sizes, colors, patches, texts, row, size,
                   tip_radius, tip_i, calls, prev_prims, rng_at_call>>

\* lines 464-474
OuterGlow == pc = "outer" /\ Scatter(OuterGlowLayer) /\ pc' = "mid"

\* lines 477-487
MidGlow == pc = "mid" /\ Scatter(MidGlowLayer) /\ pc' = "inner"

\* lines 490-500
InnerGlow == pc = "inner" /\ Scatter(InnerGlowLayer) /\ pc' = "star"

\* lines 503-513
MainStar ==
    /\ pc = "star"
    /\ prims' = prims \o ScatterStars(MainStarLayer)
    /\ row' = 1
    /\ pc' = "sparkle_row"
    /\ UNCHANGED <<scaleVars, fetchVars, mainVars>>
    /\ UNCHANGED <<gdf_pa, rng, star_sizes, colors, patches, texts, size,
                   tip_radius, tip_i, calls, prev_prims, rng_at_call>>

\* lines 516-521: the next row of iterrows(); star_sizes is indexed by the
\* row's index label, and numpy raises IndexError for a label >= len
SparkleRow ==
    /\ pc = "sparkle_row"
    /\ IF row > Len(gdf_pa)
       THEN pc' = "labels" /\ UNCHANGED <<size, tip_radius, tip_i>>
       ELSE LET idx == gdf_pa[row].idx
            IN  IF idx >= Len(star_sizes)
                THEN pc' = "raised" /\ UNCHANGED <<size, tip_radius, tip_i>>
                ELSE /\ size' = star_sizes[idx + 1]
                     /\ tip_radius' = TipRadius(star_sizes[idx + 1])
                     /\ tip_i' = 0
                     /\ pc' = "sparkle_dot"
    /\ UNCHANGED <<scaleVars, fetchVars, mainVars>>
    /\ UNCHANGED <<gdf_pa, rng, star_sizes, colors, patches, prims, texts, row,
                   calls, prev_prims, rng_at_call>>

\* a sparkle whose size is jittered by a draw from the generator
SparkleDotJitter ==
    /\ pc = "sparkle_dot"
    /\ prims' = Append(prims,
          [SparklePrim(row, tip_i) EXCEPT !.s = FMul(size, Frac(8 + rng, 100))])
    /\ rng' = RngAfter(rng, 1)
    /\ IF tip_i + 1 < 5
       THEN tip_i' = tip_i + 1 /\ pc' = pc /\ row' = row
       ELSE tip_i' = 0 /\ pc' = "sparkle_row" /\ row' = row + 1
    /\ UNCHANGED <<scaleVars, fetchVars, mainVars>>
    /\ UNCHANGED <<gdf_pa, star_sizes, colors, patches, texts, size,
                   tip_radius, calls, prev_prims, rng_at_call>>

\* lines 524-538: one pass of "for i in range(5)"
SparkleDot ==
    /\ pc = "sparkle_dot"
    /\ prims' = Append(prims, SparklePrim(row, tip_i))
    /\ IF tip_i + 1 < 5
       THEN tip_i' = tip_i + 1 /\ pc' = pc /\ row' = row
       ELSE tip_i' = 0 /\ pc' = "sparkle_row" /\ row' = row + 1
    /\ UNCHANGED <<scaleVars, fetchVars, mainVars>>
    /\ UNCHANGED <<gdf_pa, rng, star_sizes, colors, patches, texts, size,
                   tip_radius, calls, prev_prims, rng_at_call>>

\* lines 541-584: the labels, the axes' decoration, return fig
LabelAndReturn ==
    /\ pc = "labels"
    /\ texts' = Labels(gdf_pa)
    /\ pc' = "done"
    /\ UNCHANGED <<scaleVars, fetchVars, mainVars>>
    /\ UNCHANGED <<gdf_pa, rng, star_sizes, colors, patches, prims, row, size,
                   tip_radius, tip_i, calls, prev_prims, rng_at_call>>

\* example_usage.py: main() at line 19 has drawn the table, line 38 draws the
\* same table again in the same process; the generator keeps its state
CallAgain ==
    /\ pc = "done"
    /\ calls < MaxCalls
    /\ calls' = calls + 1
    /\ prev_prims' = prims
    /\ rng_at_call' = Append(rng_at_call, rng)
    /\ pc' = "tree"
    /\ star_sizes' = <<>> /\ colors' = <<>>
    /\ patches' = <<>> /\ prims' = <<>> /\ texts' = <<>>
    /\ row' = 0 /\ size' = NaN /\ tip_radius' = NaN /\ tip_i' = 0
    /\ UNCHANGED <<scaleVars, fetchVars, mainVars>>
    /\ UNCHANGED <<gdf_pa, rng>>

Next ==
    \/ DrawTree
    \/ PlotBoundary
    \/ ComputeSizes
    \/ OuterGlow
    \/ MidGlow
    \/ InnerGlow
    \/ MainStar
    \/ SparkleRow
    \/ SparkleDot
    \/ LabelAndReturn
    \/ CallAgain

Spec == Init /\ [][Next]_vars

-----------------------------------------------------------------------------
(* fetch_vietnam_boundary *)

\* coordinate counts of an exterior ring: an empty polygon has none, a
\* closed ring has at least four
RingCounts == {0} \cup (4..MaxCoords)

Geom(t, r) == [geom_type |-> t, rings |-> r, simplified |-> FALSE]

\* what gpd.read_file can find at the path: a file it cannot parse, a frame
\* without rows, or a frame whose first geometry is a Point, a Polygon or a
\* MultiPolygon
GadmContents ==
    {Geom("Unreadable", <<>>), Geom("NoRows", <<>>), Geom("Point", <<>>)}
    \cup {Geom("Polygon", <<c>>) : c \in RingCounts}
    \cup {Geom("MultiPolygon", r) : r \in SeqsUpTo(RingCounts, MaxPolys)}

GadmFiles == [exists : BOOLEAN, content : GadmContents]

RECURSIVE SumSeq(_)
SumSeq(q) == IF Len(q) = 0 THEN 0 ELSE q[1] + SumSeq(Tail(q))

\* lines 51-56 and 65-70: the coordinates of the first geometry's exterior
\* rings; iloc[0] of a frame without rows raises IndexError, a geometry
\* without .exterior raises AttributeError
CountCoords(g) ==
    CASE g.geom_type = "NoRows" -> [exc |-> "IndexError", n |-> 0]
      [] g.geom_type = "MultiPolygon" -> [exc |-> "", n |-> SumSeq(g.rings)]
      [] g.geom_type = "Polygon" -> [exc |-> "", n |-> g.rings[1]]
      [] g.geom_type = "Point" -> [exc |-> "AttributeError", n |-> 0]

\* the geometries simplify(tolerance=0.03, preserve_topology=True) can make
\* of g: every ring keeps between four and all of its coordinates
Simplified(g) ==
    {[geom_type |-> g.geom_type, rings |-> r, simplified |-> TRUE] :
        r \in {q \in [1..Len(g.rings) -> 0..MaxCoords] :
                 \A i \in 1..Len(g.rings) :
                    IF g.rings[i] = 0 THEN q[i] = 0
                    ELSE 4 <= q[i] /\ q[i] <= g.rings[i]}}

\* lines 45-47: os.path.exists(gadm_file); without the file the try block
\* is left with no return
FetchExists ==
    /\ bpc = "call"
    /\ bpc' = IF gadm.exists THEN "read" ELSE "raise"
    /\ UNCHANGED <<gadm, gdf, total_coords, simplified_coords, caught, fetched>>
    /\ UNCHANGED <<scaleVars, vizVars, mainVars>>

\* line 48: gdf = gpd.read_file(gadm_file)
FetchRead ==
    /\ bpc = "read"
    /\ IF gadm.content.geom_type = "Unreadable"
       THEN caught' = "DriverError" /\ bpc' = "except" /\ gdf' = gdf
       ELSE gdf' = gadm.content /\ bpc' = "count" /\ caught' = caught
    /\ UNCHANGED <<gadm, total_coords, simplified_coords, fetched>>
    /\ UNCHANGED <<scaleVars, vizVars, mainVars>>

\* lines 51-58: total_coords
FetchCount ==
    /\ bpc = "count"
    /\ LET c == CountCoords(gdf)
       IN  IF c.exc # ""
           THEN caught' = c.exc /\ bpc' = "except" /\ total_coords' = 0
           ELSE total_coords' = c.n /\ bpc' = "simplify" /\ caught' = caught
    /\ UNCHANGED <<gadm, gdf, simplified_coords, fetched>>
    /\ UNCHANGED <<scaleVars, vizVars, mainVars>>

\* line 62: gdf['geometry'] = gdf.geometry.simplify(...), which can fail
\* inside GEOS
FetchSimplify ==
    /\ bpc = "simplify"
    /\ \/ gdf' \in Simplified(gdf) /\ bpc' = "recount" /\ caught' = caught
       \/ caught' = "GEOSException" /\ bpc' = "except" /\ gdf' = gdf
    /\ UNCHANGED <<gadm, total_coords, simplified_coords, fetched>>
    /\ UNCHANGED <<scaleVars, vizVars, mainVars>>

\* lines 65-70: simplified_coords
FetchRecount ==
    /\ bpc = "recount"
    /\ LET c == CountCoords(gdf)
       IN  IF c.exc # ""
           THEN caught' = c.exc /\ bpc' = "except" /\ simplified_coords' = 0
           ELSE simplified_coords' = c.n /\ bpc' = "report" /\ caught' = caught
    /\ UNCHANGED <<gadm, gdf, total_coords, fetched>>
    /\ UNCHANGED <<scaleVars, vizVars, mainVars>>

\* lines 72-76: reduction = (1 - simplified_coords/total_coords) * 100, the
\* prints, return gdf
FetchReport ==
    /\ bpc = "report"
    /\ IF total_coords = 0
       THEN caught' = "ZeroDivisionError" /\ bpc' = "except" /\ fetched' = fetched
       ELSE /\ fetched' = [how |-> "returned", gdf |-> gdf]
            /\ bpc' = "returned" /\ caught' = caught
    /\ UNCHANGED <<gadm, gdf, total_coords, simplified_coords>>
    /\ UNCHANGED <<scaleVars, vizVars, mainVars>>

\* lines 77-78: except Exception as e: print
FetchExcept ==
    /\ bpc = "except"
    /\ bpc' = "raise"
    /\ UNCHANGED <<gadm, gdf, total_coords, simplified_coords, caught, fetched>>
    /\ UNCHANGED <<scaleVars, vizVars, mainVars>>

\* a built-in rectangle returned in place of the missing boundary
FetchDefault ==
    /\ bpc = "raise"
    /\ fetched' = [how |-> "returned",
                   gdf |-> [geom_type |-> "Polygon", rings |-> <<5>>,
                            simplified |-> TRUE]]
    /\ bpc' = "returned"
    /\ UNCHANGED <<gadm, gdf, total_coords, simplified_coords, caught>>
    /\ UNCHANGED <<scaleVars, vizVars, mainVars>>

\* line 80: raise Exception(...)
FetchRaise ==
    /\ bpc = "raise"
    /\ fetched' = [how |-> "raised", gdf |-> NoGdf]
    /\ bpc' = "raised"
    /\ UNCHANGED <<gadm, gdf, total_coords, simplified_coords, caught>>
    /\ UNCHANGED <<scaleVars, vizVars, mainVars>>

\* example_usage.py line 30: one call of fetch_vietnam_boundary
InitBoundary ==
    /\ ScaleIdle
    /\ VizIdle
    /\ MainIdle
    /\ gadm \in GadmFiles
    /\ bpc = "call" /\ gdf = NoGdf
    /\ total_coords = 0 /\ simplified_coords = 0
    /\ caught = "" /\ fetched = NotFetched

NextBoundary ==
    \/ FetchExists
    \/ FetchRead
    \/ FetchCount
    \/ FetchSimplify
    \/ FetchRecount
    \/ FetchReport
    \/ FetchExcept
    \/ FetchRaise

SpecBoundary == InitBoundary /\ [][NextBoundary]_vars

\* the call has returned or raised
FetchEnded == bpc \in {"returned", "raised"}

-----------------------------------------------------------------------------
(* main *)

\* lines 599-604: banner, then gdf_boundary = fetch_vietnam_boundary(gadm_file)
MainCallBoundary ==
    /\ mpc = "start"
    /\ bpc' = "call"
    /\ mpc' = "boundary"
    /\ UNCHANGED <<gadm, gdf, total_coords, simplified_coords, caught, fetched>>
    /\ UNCHANGED <<gdf_boundary, steps, outputs>>
    /\ UNCHANGED <<scaleVars, vizVars>>

\* the failed boundary load is passed over and main goes on without a boundary
MainBoundaryIgnore ==
    /\ mpc = "boundary"
    /\ FetchEnded
    /\ gdf_boundary' = fetched.gdf
    /\ steps' = IF fetched.how = "returned" THEN Append(steps, "boundary")
                ELSE steps
    /\ mpc' = "pa"
    /\ UNCHANGED outputs
    /\ UNCHANGED <<scaleVars, vizVars, fetchVars>>

\* line 604: the call returns the boundary, or its exception leaves main
MainBoundaryReturn ==
    /\ mpc = "boundary"
    /\ FetchEnded
    /\ IF fetched.how = "returned"
       THEN /\ gdf_boundary' = fetched.gdf
            /\ steps' = Append(steps, "boundary")
            /\ mpc' = "pa"
       ELSE /\ mpc' = "raised"
            /\ UNCHANGED <<gdf_boundary, steps>>
    /\ UNCHANGED outputs
    /\ UNCHANGED <<scaleVars, vizVars, fetchVars>>

\* line 607: gdf_pa = fetch_wdpa_vietnam()
MainLoadPA ==
    /\ mpc = "pa"
    /\ gdf_pa' = SampleTable
    /\ steps' = Append(steps, "pa")
    /\ mpc' = "stats"
    /\ UNCHANGED <<gdf_boundary, outputs>>
    /\ UNCHANGED <<pc, rng, star_sizes, colors, patches, prims, texts, row,
                   size, tip_radius, tip_i, calls, prev_prims, rng_at_call>>
    /\ UNCHANGED <<scaleVars, fetchVars>>

\* lines 610-626: the statistics report
MainStats ==
    /\ mpc = "stats"
    /\ steps' = Append(steps, "stats")
    /\ mpc' = "viz_call"
    /\ UNCHANGED <<gdf_boundary, outputs>>
    /\ UNCHANGED <<scaleVars, vizVars, fetchVars>>

\* line 632: fig = create_visualization(gdf_pa, gdf_boundary)
MainCallViz ==
    /\ mpc = "viz_call"
    /\ pc' = "tree"
    /\ mpc' = "viz"
    /\ UNCHANGED <<gdf_boundary, steps, outputs>>
    /\ UNCHANGED <<gdf_pa, rng, star_sizes, colors, patches, prims, texts, row,
                   size, tip_radius, tip_i, calls, prev_prims, rng_at_call>>
    /\ UNCHANGED <<scaleVars, fetchVars>>

\* line 632: the figure comes back, or the exception leaves main
MainVizReturn ==
    /\ mpc = "viz"
    /\ pc \in {"done", "raised"}
    /\ IF pc = "done"
       THEN steps' = Append(steps, "viz") /\ mpc' = "mkdir"
       ELSE steps' = steps /\ mpc' = "raised"
    /\ UNCHANGED <<gdf_boundary, outputs>>
    /\ UNCHANGED <<scaleVars, vizVars, fetchVars>>

\* line 636: os.makedirs(output_dir, exist_ok=True); the file system can
\* refuse
MainMakedirs ==
    /\ mpc = "mkdir"
    /\ \/ /\ outputs' = Append(outputs, "dir")
          /\ steps' = Append(steps, "mkdir")
          /\ mpc' = "png"
       \/ /\ mpc' = "raised"
          /\ UNCHANGED <<steps, outputs>>
    /\ UNCHANGED gdf_boundary
    /\ UNCHANGED <<scaleVars, vizVars, fetchVars>>

\* lines 638-640: fig.savefig(output_file, ...)
MainSavefig ==
    /\ mpc = "png"
    /\ \/ /\ outputs' = Append(outputs, "png")
          /\ steps' = Append(steps, "png")
          /\ mpc' = "csv"
       \/ /\ mpc' = "raised"
          /\ UNCHANGED <<steps, outputs>>
    /\ UNCHANGED gdf_boundary
    /\ UNCHANGED <<scaleVars, vizVars, fetchVars>>

\* lines 643-649: gdf_pa[...].to_csv(csv_file, ...)
MainToCsv ==
    /\ mpc = "csv"
    /\ \/ /\ outputs' = Append(outputs, "csv")
          /\ steps' = Append(steps, "csv")
          /\ mpc' = "return"
       \/ /\ mpc' = "raised"
          /\ UNCHANGED <<steps, outputs>>
    /\ UNCHANGED gdf_boundary
    /\ UNCHANGED <<scaleVars, vizVars, fetchVars>>

\* lines 651-656: return fig, gdf_pa, gdf_boundary
MainReturn ==
    /\ mpc = "return"
    /\ mpc' = "returned"
    /\ UNCHANGED <<gdf_boundary, steps, outputs>>
    /\ UNCHANGED <<scaleVars, vizVars, fetchVars>>

\* lines 659-660 and example_usage.py line 19: one run of main in a process
\* whose generator is in any state, with any file at the boundary path
InitMain ==
    /\ ScaleIdle
    /\ gdf_pa = <<>> /\ pc = "idle"
    /\ rng \in 0..(RngMod - 1)
    /\ star_sizes = <<>> /\ colors = <<>>
    /\ patches = <<>> /\ prims = <<>> /\ texts = <<>>
    /\ row = 0 /\ size = NaN /\ tip_radius = NaN /\ tip_i = 0
    /\ calls = 0 /\ prev_prims = <<>> /\ rng_at_call = <<>>
    /\ gadm \in GadmFiles
    /\ bpc = "idle" /\ gdf = NoGdf
    /\ total_coords = 0 /\ simplified_coords = 0
    /\ caught = "" /\ fetched = NotFetched
    /\ mpc = "start" /\ gdf_boundary = NoGdf
    /\ steps = <<>> /\ outputs = <<>>

NextMain ==
    \/ MainCallBoundary
    \/ FetchExists
    \/ FetchRead
    \/ FetchCount
    \/ FetchSimplify
    \/ FetchRecount
    \/ FetchReport
    \/ FetchExcept
    \/ FetchRaise
    \/ MainBoundaryReturn
    \/ MainLoadPA
    \/ MainStats
    \/ MainCallViz
    \/ DrawTree
    \/ PlotBoundary
    \/ ComputeSizes
    \/ OuterGlow
    \/ MidGlow
    \/ InnerGlow
    \/ MainStar
    \/ SparkleRow
    \/ SparkleDot
    \/ LabelAndReturn
    \/ MainVizReturn
    \/ MainMakedirs
    \/ MainSavefig
    \/ MainToCsv
    \/ MainReturn

SpecMain == InitMain /\ [][NextMain]_vars

-----------------------------------------------------------------------------
(* Properties of calculate_star_sizes *)

NonEmpty == Len(areas) > 0

NonNegative == \A i \in 1..Len(areas) : areas[i] >= 0

AllEqual == \A i \in 1..Len(areas) : areas[i] = areas[1]

\* the preconditions of the scaler's contract
ValidInput == NonEmpty /\ NonNegative /\ min_size < max_size

IsSquare(a) == a >= 0 /\ \E r \in 0..a : r * r = a

\* the natural number whose square is a
Root(a) == CHOOSE r \in 0..a : r * r = a

SetMin(S) == CHOOSE x \in S : \A y \in S : x <= y

SetMax(S) == CHOOSE x \in S : \A y \in S : y <= x

AreaSet == {areas[i] : i \in 1..Len(areas)}

\* C1: when all magnitudes are equal (and non-negative), the scaler returns
\* min_size for every element and no NaN.
C1_EqualGivesMinSize ==
    (spc # "call" /\ NonEmpty /\ NonNegative /\ AllEqual)
        => /\ ~result.raised
           /\ Len(result.sizes) = Len(areas)
           /\ \A i \in 1..Len(result.sizes) : result.sizes[i] = Num(min_size)

\* C2: the scaler raises, and returns no sizes, whenever the magnitudes are
\* empty, one of them is negative, or min_size >= max_size.
C2_InvalidInputRaises ==
    (spc # "call" /\ ~ValidInput)
        => result.raised /\ result.sizes = <<>>

\* C3: for perfect-square magnitudes that are not all equal, every size is
\* the linear interpolation on the square roots r_i:
\* size_i = min_size + (r_i - lo) / (hi - lo) * (max_size - min_size),
\* stated without division; and [0,1,4] with sizes 0..2 gives [0,1,2].
C3_LinearOnRoots ==
    (spc # "call" /\ NonEmpty /\ ~AllEqual /\ \A i \in 1..Len(areas) : IsSquare(areas[i]))
        => LET r == [i \in 1..Len(areas) |-> Root(areas[i])]
               lo == SetMin({r[i] : i \in 1..Len(areas)})
               hi == SetMax({r[i] : i \in 1..Len(areas)})
           IN  /\ ~result.raised
               /\ Len(result.sizes) = Len(areas)
               /\ \A i \in 1..Len(areas) :
                     /\ result.sizes[i].d > 0
                     /\ result.sizes[i].n * (hi - lo) =
                          result.sizes[i].d *
                            (min_size * (hi - lo) + (r[i] - lo) * (max_size - min_size))
               /\ (areas = <<0, 1, 4>> /\ min_size = 0 /\ max_size = 2)
                     => result.sizes = <<Num(0), Num(1), Num(2)>>

C3_Witness ==
    /\ spc = "returned"
    /\ areas = <<0, 1, 4>> /\ min_size = 0 /\ max_size = 2
    /\ result.sizes = <<Num(0), Num(1), Num(2)>>

\* C4: for every non-empty sequence of non-negative magnitudes and
\* min_size < max_size, the output has the input's length and every value
\* lies in [min_size, max_size].
C4_LengthAndRange ==
    (spc # "call" /\ ValidInput)
        => /\ ~result.raised
           /\ Len(result.sizes) = Len(areas)
           /\ \A i \in 1..Len(result.sizes) :
                 /\ FLe(Num(min_size), result.sizes[i])
                 /\ FLe(result.sizes[i], Num(max_size))

\* C5: within one input, magnitude_i <= magnitude_j implies
\* size_i <= size_j, whatever the positions i and j.
C5_Monotonic ==
    (spc # "call" /\ ValidInput)
        => /\ ~result.raised
           /\ Len(result.sizes) = Len(areas)
           /\ \A i, j \in 1..Len(areas) :
                 areas[i] <= areas[j] => FLe(result.sizes[i], result.sizes[j])

\* C6: when the (non-negative) magnitudes are not all equal, every element
\* of minimal magnitude gets exactly min_size and every element of maximal
\* magnitude exactly max_size; the sample table has 25 areas from 71 to
\* 1156, and with (80, 1000) 71 gets 80 and 1156 gets 1000.
C6_EndpointsExact ==
    /\ (spc # "call" /\ NonEmpty /\ NonNegative /\ ~AllEqual)
          => /\ ~result.raised
             /\ Len(result.sizes) = Len(areas)
             /\ \A i \in 1..Len(areas) :
                   /\ areas[i] = SetMin(AreaSet) => result.sizes[i] = Num(min_size)
                   /\ areas[i] = SetMax(AreaSet) => result.sizes[i] = Num(max_size)
    /\ (spc # "call" /\ areas = SampleAreas)
          => /\ Len(areas) = 25
             /\ SetMin(AreaSet) = 71
             /\ SetMax(AreaSet) = 1156
             /\ (min_size = 80 /\ max_size = 1000) =>
                   \A i \in 1..Len(areas) :
                      /\ areas[i] = 71 => result.sizes[i] = Num(80)
                      /\ areas[i] = 1156 => result.sizes[i] = Num(1000)

C6_Witness ==
    /\ spc = "returned"
    /\ areas = SampleAreas /\ min_size = 80 /\ max_size = 1000
    /\ \E i, j \in 1..Len(areas) :
          /\ areas[i] = 71 /\ result.sizes[i] = Num(80)
          /\ areas[j] = 1156 /\ result.sizes[j] = Num(1000)

-----------------------------------------------------------------------------
(* Properties of the glyphs drawn by create_visualization *)

Rows == 1..Len(gdf_pa)

LayerKinds == {"outer", "mid", "inner", "star"}

GlyphKinds == LayerKinds \cup {"sparkle"}

\* position of a primitive's kind in the back-to-front list
Rank(kind) ==
    CASE kind = "outer" -> 1
      [] kind = "mid" -> 2
      [] kind = "inner" -> 3
      [] kind = "star" -> 4
      [] kind = "sparkle" -> 5

IsGlyph(p) == p.kind \in GlyphKinds

Glyphs(ps) == SelectSeq(ps, IsGlyph)

\* the primitives of one kind drawn for the row at position k
Of(kind, k) == {a \in 1..Len(prims) : prims[a].kind = kind /\ prims[a].row = k}

\* the scatter calls of the four star layers are behind
LayersDrawn == pc \in {"sparkle_row", "sparkle_dot", "labels", "done"}

\* what the claim says of one star layer of the row at position k
LayerIs(p, k, factor, alpha, c, lw) ==
    /\ p.x = gdf_pa[k].x /\ p.y = gdf_pa[k].y
    /\ p.s = FMul(star_sizes[k], factor)
    /\ p.alpha = alpha
    /\ p.c = c
    /\ p.lw = lw

\* C7: the layers of every point's glyph lie back to front as outer glow
\* (2.5 x size, 15%, the point's colour), mid glow (1.8 x, 25%, the point's
\* colour), inner glow (1.3 x, 35%, white), foreground star (1 x, 95%, the
\* point's colour, outline 1.2), sparkles: a layer earlier in this list is
\* drawn earlier and has the smaller zorder; each star layer is there once.
C7_LayerOrder ==
    LET byRow == [k \in Rows |->
                    {a \in 1..Len(prims) : IsGlyph(prims[a]) /\ prims[a].row = k}]
        lo == IntMin(TableAreas(gdf_pa))
        hi == IntMax(TableAreas(gdf_pa))
        own == [k \in Rows |-> Cmap(ColorIndex(gdf_pa[k].area, lo, hi))]
    IN  /\ \A k \in Rows : \A a, b \in byRow[k] :
              Rank(prims[a].kind) < Rank(prims[b].kind)
                 => prims[a].zorder < prims[b].zorder /\ a < b
        /\ \A a \in 1..Len(prims) :
              LET p == prims[a]
              IN  /\ p.kind = "outer" =>
                        LayerIs(p, p.row, Frac(5, 2), Frac(15, 100), own[p.row], Num(0))
                  /\ p.kind = "mid" =>
                        LayerIs(p, p.row, Frac(9, 5), Frac(25, 100), own[p.row], Num(0))
                  /\ p.kind = "inner" =>
                        LayerIs(p, p.row, Frac(13, 10), Frac(35, 100), White, Num(0))
                  /\ p.kind = "star" =>
                        LayerIs(p, p.row, Num(1), Frac(95, 100), own[p.row], Frac(6, 5))
        /\ LayersDrawn =>
              \A k \in Rows : \A kind \in LayerKinds :
                  Cardinality({a \in byRow[k] : prims[a].kind = kind}) = 1

C7_Witness ==
    /\ pc = "done"
    /\ Len(gdf_pa) >= 2
    /\ \A k \in Rows : \A kind \in GlyphKinds : Of(kind, k) # {}
    /\ \E a, b \in 1..Len(prims) :
          /\ prims[a].kind = "star" /\ prims[b].kind = "star"
          /\ prims[a].c # prims[b].c

\* < and == on doubles: false when either side is NaN
FLt(a, b) == ~IsNaN(a) /\ ~IsNaN(b) /\ a.n * b.d < b.n * a.d

FEq(a, b) == ~IsNaN(a) /\ ~IsNaN(b) /\ a = b

\* the sparkles of the row at position k, in drawing order
SparklesOf(k) ==
    LET Mine(p) == p.kind = "sparkle" /\ p.row = k
    IN  SelectSeq(prims, Mine)

Ended == pc \in {"done", "raised"}

\* C8: once create_visualization has ended, every point has exactly five
\* sparkles, white, 70% opaque, of size 0.08 x the point's size, sparkle i
\* at angle i*2*pi/5 + pi/2 and distance sqrt(size/pi)*0.6 from the point
\* (hence all at one distance), sparkle 0 straight above it; 5 per point in
\* total.
C8_FiveSparkles ==
    Ended =>
        /\ Len(SelectSeq(prims, LAMBDA p : p.kind = "sparkle")) = 5 * Len(gdf_pa)
        /\ \A k \in Rows :
              LET sp == SparklesOf(k)
                  r == TipRadius(star_sizes[k])
              IN  /\ Len(sp) = 5
                  /\ \A j \in 1..Len(sp) :
                        /\ sp[j].c = White
                        /\ sp[j].alpha = Frac(70, 100)
                        /\ sp[j].s = FMul(star_sizes[k], Frac(8, 100))
                        /\ sp[j].x = FAdd(gdf_pa[k].x, FMul(r, np_cos(Angle(j - 1))))
                        /\ sp[j].y = FAdd(gdf_pa[k].y, FMul(r, np_sin(Angle(j - 1))))
                  /\ Len(sp) >= 1 =>
                        /\ FEq(sp[1].x, gdf_pa[k].x)
                        /\ FLt(gdf_pa[k].y, sp[1].y)

\* the steps of create_visualization that compute and draw the glyphs
GlyphSteps ==
    {"sizes", "outer", "mid", "inner", "star", "sparkle_row", "sparkle_dot"}

\* C9: the glyphs do not depend on the random generator: the steps that
\* compute and draw them take no draw from it, the tree step (which seeds it
\* with 42 and draws) leaves the glyphs alone, and a second call with the
\* same table, entered with the generator in whatever state the first call
\* left it, returns the same glyph primitives in the same order.
C9_SeedIndependent ==
    [][ /\ pc \in GlyphSteps => rng' = rng
        /\ pc = "tree" => Glyphs(prims') = Glyphs(prims)
        /\ (pc' = "done" /\ calls' > 1) => Glyphs(prims') = Glyphs(prev_prims')
      ]_vars

C9_Witness ==
    /\ pc = "done"
    /\ calls = 2
    /\ rng_at_call[1] # rng_at_call[2]
    /\ Len(Glyphs(prims)) >= 9 * 2
    /\ Glyphs(prims) = Glyphs(prev_prims)

\* create_visualization always asks for sizes in [80, 1000]: a computed size
\* is NaN or at least 80, so no point has size 0
SizeNeverZero ==
    \A k \in 1..Len(star_sizes) :
        IsNaN(star_sizes[k]) \/ FLe(Num(DefaultMinSize), star_sizes[k])

-----------------------------------------------------------------------------
(* Properties of fetch_vietnam_boundary *)


\* g is what simplification can make of the geometry h
SimplifiedFrom(g, h) ==
    /\ g.simplified
    /\ g.geom_type = h.geom_type
    /\ Len(g.rings) = Len(h.rings)
    /\ \A i \in 1..Len(g.rings) : g.rings[i] <= h.rings[i]

\* C11: fetch_vietnam_boundary returns only when the file exists and
\* reading, counting and simplifying all succeeded, and then it returns the
\* simplified geometry of the file; when the file is absent or any of these
\* steps failed, the call ends by raising and hands no geometry to the
\* caller; a call that has not ended can always take a step.
C11_BoundaryOrRaise ==
    /\ fetched.how = "returned" =>
          /\ gadm.exists
          /\ caught = ""
          /\ gadm.content.geom_type \in {"Polygon", "MultiPolygon"}
          /\ SimplifiedFrom(fetched.gdf, gadm.content)
    /\ fetched.how # "returned" => fetched.gdf = NoGdf
    /\ FetchEnded => fetched.how = bpc
    /\ (FetchEnded /\ (~gadm.exists \/ caught # "")) => fetched.how = "raised"
    /\ caught # "" => bpc \in {"except", "raise", "raised"}
    /\ bpc \in {"call", "read", "count", "simplify", "recount", "report",
                "except", "raise"} => ENABLED NextBoundary

C11_Witness ==
    /\ fetched.how = "raised"
    /\ gadm.exists
    /\ gdf.simplified
    /\ caught = "ZeroDivisionError"

-----------------------------------------------------------------------------
(* Properties of main *)

StepOrder == <<"boundary", "pa", "stats", "viz", "mkdir", "png", "csv">>

OutputOrder == <<"dir", "png", "csv">>

IsPrefix(p, q) == Len(p) <= Len(q) /\ \A i \in 1..Len(p) : p[i] = q[i]

\* C12: the steps of main finish in the order boundary load, protected-area
\* load, statistics, visualization, output directory, PNG, CSV; the
\* directory, the PNG and the CSV come into being in this order and only
\* after the four earlier steps have finished; after a failed boundary load
\* no step finishes and nothing is created; the CSV is never written unless
\* the PNG was written before it.
C12_StepOrder ==
    /\ IsPrefix(steps, StepOrder)
    /\ IsPrefix(outputs, OutputOrder)
    /\ Len(outputs) = IF Len(steps) > 4 THEN Len(steps) - 4 ELSE 0
    /\ outputs # <<>> =>
          /\ fetched.how = "returned"
          /\ gdf_boundary = fetched.gdf
          /\ gdf_pa = SampleTable
          /\ pc = "done"
    /\ fetched.how = "raised" =>
          /\ steps = <<>> /\ outputs = <<>>
          /\ mpc \in {"boundary", "raised"}
    /\ (\E i \in 1..Len(outputs) : outputs[i] = "csv") =>
          \E j \in 1..Len(outputs) : outputs[j] = "png" /\ outputs[j + 1] = "csv"
    /\ mpc = "returned" => steps = StepOrder /\ outputs = OutputOrder

C12_Witness ==
    /\ mpc = "returned"
    /\ steps = StepOrder
    /\ outputs = OutputOrder

-----------------------------------------------------------------------------
(* Properties of the sparkle loop's size lookup *)

\* C13: for every table, row selections that keep their index labels
\* included, the size the sparkle loop holds while it draws the sparkles of
\* row k is the k-th output of the scaler, and the lookup never leaves the
\* range of the scaler's output (the loop never ends in IndexError).
C13_SizeOfSameRow ==
    /\ pc = "sparkle_dot" => size = star_sizes[row]
    /\ pc = "raised" => row = 0

====
